---------------------------- MODULE Spec2Model ----------------------------
(***************************************************************************)
(* Model of the Disgram delivery engine (Telegram feed -> Discord webhook). *)
(*                                                                         *)
(*   Part I   DiscordRateLimiter (src/rate_limiter.py) driven by the two   *)
(*            send-with-retry cycles: RateLimitedWebhook.                   *)
(*            send_with_rate_limiting (src/webhook.py) and                  *)
(*            make_request_with_rate_limiting (src/rate_limiter.py, used   *)
(*            by src/threadhook.py).  Specifications SpecRL, SpecSusp,     *)
(*            SpecFrame and SpecWindow: the same steps against servers     *)
(*            that answer differently.                                     *)
(*   Part II  the per-channel polling loop main() of src/webhook.py and    *)
(*            src/threadhook.py with sendMessage, sendGroupedMediaMessage  *)
(*            and the Disgram.log ledger.  Specification SpecPoll.         *)
(*                                                                         *)
(* Time is an integer number of ticks; one second is TicksPerSecond ticks. *)
(* time.time() is the variable now, time.sleep(d) returns at any time at   *)
(* or after now + d.                                                       *)
(***************************************************************************)
EXTENDS Integers, Sequences, FiniteSets, TLC

VARIABLES
    \* ---- Part I: DiscordRateLimiter state (rate_limiter.py:45-62)
    now,                            \* time.time(), in ticks
    buckets,                        \* self.buckets: key -> RateLimitBucket
    global_rate_limit_reset,        \* self.global_rate_limit_reset
    global_requests_made,           \* self.global_requests_made
    global_window_start,            \* self.global_window_start
    invalid_requests_count,         \* self.invalid_requests_count
    invalid_requests_window_start,  \* self.invalid_requests_window_start
    th,                             \* the threads that send through the limiter
    path,                           \* the send-with-retry cycle this process uses
    \* ---- Part I: observers (history of what the callers did)
    recent,                         \* counted requests that were sent at now, now-1, ...
    gUntil,                         \* end of the suspension of a global 429, 0 if none
    kUntil,                         \* key -> end of the suspension of a non-global 429
    gEntered,                       \* threads that called wait_for_rate_limit under gUntil
    kEntered,                       \* threads that called it under kUntil of their key
    watch,                          \* which observers record: "window" or "suspension"
    \* ---- Part II: polling loop of one channel (webhook.py:593-682)
    pc,                             \* position of the loop
    channel,                        \* the feed: sequence -> images, videos; absent if none
    viewLo, viewHi,                 \* the sequence numbers the feed page shows
    message_boxes,                  \* sequence numbers returned by the current scrape
    idx,                            \* index of the record being processed
    msg_log,                        \* msg_log: links seen in the previous poll
    msg_temp,                       \* msg_temp: links seen in this poll
    last_processed_number,
    grouped_media_ranges,
    ledger,                         \* Disgram.log: sequence -> number of permalink lines
    pollNo,                         \* number of scrapes done
    \* ---- Part II: observers
    obs,                            \* what the processing of the current record did
    prev_boxes,                     \* what the previous scrape returned
    complete, prevComplete,         \* this / the previous poll ran to its end
    pollCalls, pollWrites,          \* Sink calls and permalink lines of this poll
    placeholder_sent,               \* numbers a standalone placeholder went out for
    \* ---- the bot process of another channel, started by its own Popen
    \* (main.py:497-514): its own discord_rate_limiter (rate_limiter.py:337)
    peer_made,                      \* its self.global_requests_made
    peer_start,                     \* its self.global_window_start
    peer_sent,                      \* requests it has sent to the webhook
    \* ---- the endpoint keys of two requests (rate_limiter.py:64-79)
    request_urls,                   \* the urls of the two requests
    request_keys,                   \* what _get_bucket_key returned for them
    \* ---- the /logs/clear handler of the supervisor (main.py:335-391)
    clearing,                       \* its position and its latest_messages
    \* ---- the supervisor of the bot processes (main.py:486-576)
    processes,                      \* the list `processes`
    supervisor                      \* position of __main__ and what it found

rlVars == <<now, buckets, global_rate_limit_reset, global_requests_made,
            global_window_start, invalid_requests_count,
            invalid_requests_window_start, th, path, recent, gUntil, kUntil,
            gEntered, kEntered, watch>>

pollVars == <<pc, channel, viewLo, viewHi, message_boxes, idx, msg_log,
              msg_temp, last_processed_number, grouped_media_ranges, ledger,
              pollNo, obs, prev_boxes, complete, prevComplete,
              pollCalls, pollWrites, placeholder_sent>>

peerVars == <<peer_made, peer_start, peer_sent>>

sideVars == <<request_urls, request_keys, clearing, processes, supervisor>>

vars == <<rlVars, pollVars, peerVars, sideVars>>

-----------------------------------------------------------------------------
(* Bounds of the model.                                                    *)

\* ticks per second: the resolution of the clock
TicksPerSecond == 2
\* the clock stops at MaxTime ticks
MaxTime == 3
\* self.global_limit is 50 in the source (rate_limiter.py:53); the model
\* scales it down so that a window can be filled within the bounds
global_limit == 3
\* max_retries defaults to 5 in the source (rate_limiter.py:264,
\* webhook.py:296); scaled down
max_retries == 1
\* largest X-RateLimit-Limit / X-RateLimit-Remaining header value
MaxLimit == 1
\* largest retry_after of a 429 body and largest X-RateLimit-Reset offset, in ticks
MaxRetryAfter == 2
\* invalid_requests_count is not counted beyond this
MaxInvalid == 2

\* largest sequence number of the feed
MaxSeq == 4
\* most images of one record
MaxImages == 2
\* scrapes in one run
MaxPolls == 3
\* most images and most videos of the record of a one-record feed
MaxAlbumImages == 3
MaxAlbumVideos == 2
\* requests the bot process of another channel sends
MaxPeerRequests == 3
\* a record carries at most MaxVideos videos
MaxVideos == 1
\* the records of a feed with videos have numbers up to MaxMediaSeq
MaxMediaSeq == 2
\* the longest webhook token of a request url, in characters
MaxTokenLen == 9
\* len(Channels), and the supervision cycles looked at
NumChannels == 2
MaxCycles == 3

Callers == {"t1", "t2"}
Keys    == {"k1", "k2"}

\* the two send-with-retry cycles
Paths == {"webhook", "thread"}

-----------------------------------------------------------------------------
(* Helpers.                                                                *)

Min(a, b) == IF a < b THEN a ELSE b
Max(a, b) == IF a > b THEN a ELSE b

RECURSIVE Pow2(_)
Pow2(n) == IF n <= 0 THEN 1 ELSE 2 * Pow2(n - 1)

\* self.global_window_size = 1.0 (seconds)
global_window_size == 1 * TicksPerSecond

\* self.invalid_requests_window = 600 (seconds)
invalid_requests_window == 600 * TicksPerSecond
\* self.max_invalid_requests
max_invalid_requests == 9000
\* the counts at which the model takes no further 401, 403 or 429: MaxInvalid
\* of them from zero, or MaxInvalid above max_invalid_requests
InvalidCaps == {MaxInvalid, max_invalid_requests + MaxInvalid}

\* RateLimitBucket() defaults (rate_limiter.py:25-33); present = key in self.buckets
NoBucket == [present |-> FALSE, limit |-> 0, remaining |-> 0, reset_time |-> 0]

\* A header that is absent is -1.
Absent == -1
\* The rate-limit headers a server sends; reset is X-RateLimit-Reset as ticks
\* after the response.
Headers ==
    { h \in [limit : {Absent} \cup 1..MaxLimit,
             remaining : {Absent} \cup 0..MaxLimit,
             reset : {Absent, MaxRetryAfter}] :
        (h.limit # Absent /\ h.remaining # Absent) => h.remaining <= h.limit }

NoHeaders == [limit |-> Absent, remaining |-> Absent, reset |-> Absent]

\* the headers of a response that says the bucket is used up
Exhausted == [limit |-> MaxLimit, remaining |-> 0, reset |-> MaxRetryAfter]

\* the headers h of a response received at time t, X-RateLimit-Reset as a time
HeadersAt(h, t) ==
    [h EXCEPT !.reset = IF @ = Absent THEN Absent ELSE t + @]


\* response.json() on a 429: parsed, with retry_after (ticks) and global; when
\* it cannot be parsed, retry_after is what the Retry-After header (or its
\* default) gives and global is not read.
Bodies ==
    { b \in [parsed : BOOLEAN, retry_after : 0..MaxRetryAfter, global : BOOLEAN] :
        ~b.parsed => ~b.global }

NoBody == [parsed |-> FALSE, retry_after |-> 0, global |-> FALSE]

\* status codes a response can carry
Statuses == {200, 400, 401, 403, 404, 429, 500, 501}
\* statuses for which SyncWebhook.send raises an HTTPError with a response
ErrStatuses == {s \in Statuses : s >= 400}

-----------------------------------------------------------------------------
(* Part I.  DiscordRateLimiter.                                            *)

\* a variant that writes the headers of the response into every bucket
update_every_bucket_from_headers(bs, key, h) ==
    [k \in DOMAIN bs |->
        [present    |-> TRUE,
         limit      |-> IF h.limit # Absent THEN h.limit ELSE bs[k].limit,
         remaining  |-> IF h.remaining # Absent THEN h.remaining
                                                ELSE bs[k].remaining,
         reset_time |-> IF h.reset # Absent THEN h.reset ELSE bs[k].reset_time]]

\* _update_bucket_from_headers, on the dictionary bs
update_bucket_from_headers(bs, key, h) ==
    LET bucket == IF bs[key].present THEN bs[key] ELSE NoBucket
    IN  [bs EXCEPT ![key] =
            [present    |-> TRUE,
             limit      |-> IF h.limit # Absent THEN h.limit ELSE bucket.limit,
             remaining  |-> IF h.remaining # Absent THEN h.remaining
                                                    ELSE bucket.remaining,
             reset_time |-> IF h.reset # Absent THEN h.reset
                                                ELSE bucket.reset_time]]

\* _check_global_rate_limit at time t: the wait returned (0 is None) and the
\* counter and window start it leaves behind
check_global_rate_limit(made, start, t) ==
    LET expired == t - start >= global_window_size
        made1   == IF expired THEN 0 ELSE made
        start1  == IF expired THEN t ELSE start
        wait    == global_window_size - (t - start1)
    IN  IF made1 >= global_limit
        THEN IF wait > 0
             THEN [wait |-> wait, made |-> made1, start |-> start1]
             ELSE [wait |-> 0, made |-> 0, start |-> t]
        ELSE [wait |-> 0, made |-> made1, start |-> start1]

\* a variant that lets a bucket with remaining = 0 through
check_bucket_rate_limit_below_zero(bs, key, t) ==
    LET bucket == bs[key]
    IN  IF ~bucket.present
        THEN [wait |-> 0, buckets |-> bs]
        ELSE IF t >= bucket.reset_time
        THEN [wait |-> 0,
              buckets |-> [bs EXCEPT ![key].remaining = bucket.limit]]
        ELSE IF bucket.remaining < 0
        THEN [wait |-> Max(bucket.reset_time - t, 0), buckets |-> bs]
        ELSE [wait |-> 0, buckets |-> bs]

\* _check_bucket_rate_limit at time t: the wait returned (0 is None) and the
\* dictionary it leaves behind
check_bucket_rate_limit(bs, key, t) ==
    LET bucket == bs[key]
    IN  IF ~bucket.present
        THEN [wait |-> 0, buckets |-> bs]
        ELSE IF t >= bucket.reset_time
        THEN [wait |-> 0,
              buckets |-> [bs EXCEPT ![key].remaining = bucket.limit]]
        ELSE IF bucket.remaining <= 0
        THEN [wait |-> Max(bucket.reset_time - t, 0), buckets |-> bs]
        ELSE [wait |-> 0, buckets |-> bs]

\* a variant that decrements whatever remaining is
decrement_bucket_remaining_unguarded(bs, key) ==
    IF bs[key].present
    THEN [bs EXCEPT ![key].remaining = @ - 1]
    ELSE bs

\* _decrement_bucket_remaining
decrement_bucket_remaining(bs, key) ==
    IF bs[key].present /\ bs[key].remaining > 0
    THEN [bs EXCEPT ![key].remaining = @ - 1]
    ELSE bs

\* a variant that counts every response that is not a success
handle_every_failed_request(count, start, status, t) ==
    IF status >= 400
    THEN LET expired == t - start >= invalid_requests_window
         IN  [count |-> (IF expired THEN 0 ELSE count) + 1,
              start |-> IF expired THEN t ELSE start]
    ELSE [count |-> count, start |-> start]

\* _handle_invalid_request at time t: the counter and window start afterwards
handle_invalid_request(count, start, status, t) ==
    IF status \in {401, 403, 429}
    THEN LET expired == t - start >= invalid_requests_window
         IN  [count |-> (IF expired THEN 0 ELSE count) + 1,
              start |-> IF expired THEN t ELSE start]
    ELSE [count |-> count, start |-> start]

\* a variant that takes a 404 for a server error to be retried
handle_response_result_retry_404(status, body) ==
    IF status = 429
    THEN [retry |-> TRUE, wait |-> body.retry_after]
    ELSE IF status \in {401, 403}
    THEN [retry |-> FALSE, wait |-> 0]
    ELSE IF status = 404 \/ (500 <= status /\ status < 600)
    THEN [retry |-> TRUE, wait |-> TicksPerSecond]
    ELSE [retry |-> FALSE, wait |-> 0]

\* handle_response: the (should_retry, wait_time) it returns; wait 0 is None
\* or 0.0, which the callers do not tell apart
handle_response_result(status, body) ==
    IF status = 429
    THEN [retry |-> TRUE, wait |-> body.retry_after]
    ELSE IF status \in {401, 403, 404}
    THEN [retry |-> FALSE, wait |-> 0]
    ELSE IF 500 <= status /\ status < 600
    THEN [retry |-> TRUE,
          wait |-> Min(Pow2(status - 500), 60) * TicksPerSecond]
    ELSE [retry |-> FALSE, wait |-> 0]

\* handle_response: the dictionary afterwards
handle_response_buckets(bs, key, status, h) ==
    LET updated == update_bucket_from_headers(bs, key, h)
    IN  IF status = 429 \/ status \in {401, 403, 404}
           \/ (500 <= status /\ status < 600)
        THEN updated
        ELSE IF status < 400 THEN decrement_bucket_remaining(updated, key)
                             ELSE updated

\* handle_response: self.global_rate_limit_reset afterwards
handle_response_global_reset(reset, status, body, t) ==
    IF status = 429 /\ body.parsed /\ body.global
    THEN t + body.retry_after
    ELSE reset

\* a variant that grows with the attempt number in proportion
exception_backoff_linear(a) == Min(2 * a, 60) * TicksPerSecond

\* exponential backoff after a network-level exception on attempt a
exception_backoff(a) == Min(Pow2(a), 60) * TicksPerSecond

-----------------------------------------------------------------------------
(* Part I.  The callers.  Each thread sends one unit at a time through     *)
(* send_with_rate_limiting (path "webhook") or                             *)
(* make_request_with_rate_limiting (path "thread").                        *)
(*   idle      between two units; result is what the last unit returned,   *)
(*             status the status_code of a response that ended it          *)
(*   wait      about to call wait_for_rate_limit for attempt `attempt`     *)
(*   gsleep    in time.sleep(global_wait)                                  *)
(*   bcheck    about to call _check_bucket_rate_limit                      *)
(*   bsleep    in time.sleep(bucket_wait)                                  *)
(*   admitted  wait_for_rate_limit has returned True                       *)
(*   inflight  the request is on the wire                                  *)
(*   backoff   in time.sleep(wait_time) before the next attempt; status is *)
(*             response.status_code of the attempt, 0 after an exception   *)

IdleThread ==
    [pc |-> "idle", key |-> "k1", attempt |-> 0, wake |-> 0,
     blockedUntil |-> 0, sentAt |-> 0, status |-> 0, result |-> "none"]

RECURSIVE SumSeq(_)
SumSeq(q) == IF q = <<>> THEN 0 ELSE Head(q) + SumSeq(Tail(q))

\* the requests counted by _increment_global_counter that went on the wire
\* in the rolling window (now - global_window_size, now]
RollingCount == SumSeq(recent)

\* the observer of the rolling window: a request sent at tick `sent` is counted
Counted(sent) ==
    IF watch = "window" /\ now - sent < Len(recent)
    THEN [recent EXCEPT ![now - sent + 1] = @ + 1]
    ELSE recent

\* the places where a caller is inside time.sleep (rate_limiter.py:194, 199,
\* 292, 303; webhook.py:329, 342)
SleepLocations == {"gsleep", "bsleep", "backoff"}

\* a variant in which a caller keeps the limiter lock while it sleeps
holds_lock_while_asleep(t) == t.pc \in SleepLocations

\* Whether a caller at the place t.pc holds self.lock.  Every `with self.lock`
\* block (rate_limiter.py:83, 111, 136, 155, 159, 167, 230) begins and ends
\* inside one step of the caller, and no time.sleep is inside one: between two
\* steps no caller holds the lock.
holds_lock(t) == t.pc \in {}

\* self.lock (an RLock) can be taken by caller c: no other caller holds it
lock_free(c) == \A d \in Callers \ {c} : ~holds_lock(th[d])

\* a unit begins: the first iteration of the attempt loop
StartUnit(c, k) ==
    /\ th[c].pc = "idle"
    /\ th' = [th EXCEPT ![c] = [IdleThread EXCEPT !.pc = "wait", !.key = k]]
    /\ UNCHANGED <<pollVars, peerVars, sideVars>>
    /\ UNCHANGED <<now, buckets, global_rate_limit_reset, global_requests_made,
                   global_window_start, invalid_requests_count,
                   invalid_requests_window_start, path, recent, gUntil, kUntil, gEntered, kEntered, watch>>

\* wait_for_rate_limit, first half: _check_global_rate_limit
CheckGlobal(c) ==
    /\ th[c].pc = "wait"
    /\ lock_free(c)
    /\ LET r == check_global_rate_limit(global_requests_made,
                                        global_window_start, now)
           b == buckets[th[c].key]
       IN  /\ global_requests_made' = r.made
           /\ global_window_start' = r.start
           /\ th' = [th EXCEPT ![c].pc = IF r.wait > 0 THEN "gsleep" ELSE "bcheck",
                               ![c].wake = IF r.wait > 0 THEN now + r.wait ELSE 0,
                               ![c].blockedUntil =
                                   IF b.present /\ b.remaining <= 0
                                      /\ now < b.reset_time
                                   THEN b.reset_time ELSE 0]
    /\ gEntered' = IF gUntil > now THEN gEntered \cup {c} ELSE gEntered \ {c}
    /\ kEntered' = IF kUntil[th[c].key] > now THEN kEntered \cup {c}
                                               ELSE kEntered \ {c}
    /\ UNCHANGED <<pollVars, peerVars, sideVars>>
    /\ UNCHANGED <<now, buckets, global_rate_limit_reset, invalid_requests_count,
                   invalid_requests_window_start, path, recent, gUntil, kUntil,
                   watch>>

\* time.sleep(global_wait) returns
WakeGlobal(c) ==
    /\ th[c].pc = "gsleep"
    /\ now >= th[c].wake
    /\ th' = [th EXCEPT ![c].pc = "bcheck", ![c].wake = 0]
    /\ UNCHANGED <<pollVars, peerVars, sideVars>>
    /\ UNCHANGED <<now, buckets, global_rate_limit_reset, global_requests_made,
                   global_window_start, invalid_requests_count,
                   invalid_requests_window_start, path, recent, gUntil, kUntil, gEntered, kEntered, watch>>

\* wait_for_rate_limit, second half: _check_bucket_rate_limit
CheckBucket(c) ==
    /\ th[c].pc = "bcheck"
    /\ lock_free(c)
    /\ LET r == check_bucket_rate_limit(buckets, th[c].key, now)
           b == buckets[th[c].key]
       IN  /\ buckets' = r.buckets
           /\ th' = [th EXCEPT ![c].pc = IF r.wait > 0 THEN "bsleep" ELSE "admitted",
                               ![c].wake = IF r.wait > 0 THEN now + r.wait ELSE 0,
                               ![c].blockedUntil =
                                   IF b.present /\ b.remaining <= 0
                                      /\ now < b.reset_time
                                   THEN Max(@, b.reset_time) ELSE @]
    /\ UNCHANGED <<pollVars, peerVars, sideVars>>
    /\ UNCHANGED <<now, global_rate_limit_reset, global_requests_made,
                   global_window_start, invalid_requests_count,
                   invalid_requests_window_start, path, recent, gUntil, kUntil, gEntered, kEntered, watch>>

\* a variant in which wait_for_rate_limit gives up after the wait for the
\* bucket and returns False, which ends the unit
AbortAfterBucketWait(c) ==
    /\ th[c].pc = "bsleep"
    /\ now >= th[c].wake
    /\ th' = [th EXCEPT ![c].pc = "idle", ![c].result = "fail", ![c].wake = 0]
    /\ UNCHANGED <<pollVars, peerVars, sideVars>>
    /\ UNCHANGED <<now, buckets, global_rate_limit_reset, global_requests_made,
                   global_window_start, invalid_requests_count,
                   invalid_requests_window_start, path, recent, gUntil, kUntil,
                   gEntered, kEntered, watch>>

\* time.sleep(bucket_wait) returns, and wait_for_rate_limit returns True
WakeBucket(c) ==
    /\ th[c].pc = "bsleep"
    /\ now >= th[c].wake
    /\ th' = [th EXCEPT ![c].pc = "admitted", ![c].wake = 0]
    /\ UNCHANGED <<pollVars, peerVars, sideVars>>
    /\ UNCHANGED <<now, buckets, global_rate_limit_reset, global_requests_made,
                   global_window_start, invalid_requests_count,
                   invalid_requests_window_start, path, recent, gUntil, kUntil, gEntered, kEntered, watch>>

\* the request goes on the wire: self.webhook.send / requests.request
Send(c) ==
    /\ th[c].pc = "admitted"
    /\ th' = [th EXCEPT ![c].pc = "inflight", ![c].blockedUntil = 0,
                        ![c].sentAt = IF watch = "window" THEN now ELSE 0]
    /\ gEntered' = gEntered \ {c}
    /\ kEntered' = kEntered \ {c}
    /\ UNCHANGED <<pollVars, peerVars, sideVars>>
    /\ UNCHANGED <<now, buckets, global_rate_limit_reset, global_requests_made,
                   global_window_start, invalid_requests_count,
                   invalid_requests_window_start, path, recent, gUntil, kUntil,
                   watch>>

\* a variant that keeps retrying when the budget is spent
after_response_unbounded(t, status, r, final, time) ==
    IF ~r.retry
    THEN [t EXCEPT !.pc = "idle", !.result = final, !.sentAt = 0,
                   !.status = status]
    ELSE IF r.wait > 0
    THEN [t EXCEPT !.pc = "backoff", !.wake = time + r.wait, !.sentAt = 0,
                   !.status = status]
    ELSE [t EXCEPT !.pc = "wait", !.attempt = @ + 1, !.sentAt = 0]

\* The rest of one iteration of the attempt loop, common to
\* send_with_rate_limiting (webhook.py:323-335) and
\* make_request_with_rate_limiting (rate_limiter.py:287-297), once
\* handle_response has returned r; final is what the unit returns when the
\* loop ends here without a retry.
after_response(t, status, r, final, time) ==
    IF ~r.retry
    THEN [t EXCEPT !.pc = "idle", !.result = final, !.sentAt = 0,
                   !.status = status]
    ELSE IF t.attempt < max_retries /\ r.wait > 0
    THEN [t EXCEPT !.pc = "backoff", !.wake = time + r.wait, !.sentAt = 0,
                   !.status = status]
    ELSE IF t.attempt >= max_retries
    THEN [t EXCEPT !.pc = "idle", !.result = "fail", !.sentAt = 0]
    ELSE [t EXCEPT !.pc = "wait", !.attempt = @ + 1, !.sentAt = 0]

\* The handling of a network-level exception on one attempt
\* (webhook.py:337-345, rate_limiter.py:299-306).
after_exception(t, time) ==
    IF t.attempt < max_retries
    THEN [t EXCEPT !.pc = "backoff", !.wake = time + exception_backoff(t.attempt),
                   !.sentAt = 0]
    ELSE [t EXCEPT !.pc = "idle", !.result = "fail", !.sentAt = 0]

\* handle_response (rate_limiter.py:203-259) on the limiter state, for the
\* request of thread c, and the observers of the 429s
HandleResponse(c, status, h, body) ==
    LET key == th[c].key
        inv == handle_invalid_request(invalid_requests_count,
                                      invalid_requests_window_start, status, now)
    IN  /\ status \in {401, 403, 429} => invalid_requests_count \notin InvalidCaps
        /\ lock_free(c)
        /\ buckets' = handle_response_buckets(buckets, key, status, h)
        /\ global_requests_made' = global_requests_made + 1
        /\ recent' = Counted(th[c].sentAt)
        /\ invalid_requests_count' = inv.count
        /\ invalid_requests_window_start' = inv.start
        /\ global_rate_limit_reset' =
               handle_response_global_reset(global_rate_limit_reset, status,
                                            body, now)
        /\ gUntil' = IF status = 429 /\ body.parsed /\ body.global
                        /\ body.retry_after > 0 /\ watch = "suspension"
                     THEN Max(gUntil, now + body.retry_after) ELSE gUntil
        /\ kUntil' = IF status = 429 /\ body.parsed /\ ~body.global
                        /\ body.retry_after > 0 /\ watch = "suspension"
                     THEN [kUntil EXCEPT ![key] = Max(@, now + body.retry_after)]
                     ELSE kUntil
        /\ gEntered' = IF gUntil' # gUntil THEN {} ELSE gEntered
        /\ kEntered' = IF kUntil' # kUntil
                       THEN {d \in kEntered : th[d].key # key} ELSE kEntered

\* the body is read for a 429 only
BodiesOf(status, BS) == IF status = 429 THEN BS ELSE {NoBody}

\* send_with_rate_limiting: self.webhook.send returned (webhook.py:307-314)
WebhookSuccess(c) ==
    /\ th[c].pc = "inflight" /\ path = "webhook"
    /\ lock_free(c)
    /\ global_requests_made' = global_requests_made + 1
    /\ buckets' = decrement_bucket_remaining(buckets, th[c].key)
    /\ th' = [th EXCEPT ![c].pc = "idle", ![c].result = "ok", ![c].sentAt = 0]
    /\ recent' = Counted(th[c].sentAt)
    /\ UNCHANGED <<pollVars, peerVars, sideVars>>
    /\ UNCHANGED <<now, global_rate_limit_reset, global_window_start,
                   invalid_requests_count, invalid_requests_window_start,
                   path, gUntil, kUntil, gEntered, kEntered, watch>>

\* send_with_rate_limiting: HTTPError carrying a response (webhook.py:316-335)
WebhookHTTPError(c, status, h, body) ==
    /\ th[c].pc = "inflight" /\ path = "webhook"
    /\ HandleResponse(c, status, h, body)
    /\ th' = [th EXCEPT ![c] = after_response(th[c], status,
                                   handle_response_result(status, body),
                                   "fail", now)]
    /\ UNCHANGED <<pollVars, peerVars, sideVars>>
    /\ UNCHANGED <<now, global_window_start, path, watch>>

\* send_with_rate_limiting: HTTPError whose response is None (webhook.py:317,
\* 332-335): no wait; the loop goes on unless the budget is spent
WebhookHTTPErrorNoResponse(c) ==
    /\ th[c].pc = "inflight" /\ path = "webhook"
    /\ th' = [th EXCEPT ![c] =
                 IF th[c].attempt >= max_retries
                 THEN [th[c] EXCEPT !.pc = "idle", !.result = "fail", !.sentAt = 0]
                 ELSE [th[c] EXCEPT !.pc = "wait", !.attempt = @ + 1,
                                    !.sentAt = 0]]
    /\ UNCHANGED <<pollVars, peerVars, sideVars>>
    /\ UNCHANGED <<now, buckets, global_rate_limit_reset, global_requests_made,
                   global_window_start, invalid_requests_count,
                   invalid_requests_window_start, path, recent, gUntil, kUntil, gEntered, kEntered, watch>>

\* make_request_with_rate_limiting: requests.request returned a response
\* (rate_limiter.py:283-297); send_thread_webhook_with_rate_limiting reports
\* success for 200 and 204 only (threadhook.py:340-347)
ThreadResponse(c, status, h, body) ==
    /\ th[c].pc = "inflight" /\ path = "thread"
    /\ HandleResponse(c, status, h, body)
    /\ th' = [th EXCEPT ![c] = after_response(th[c], status,
                                   handle_response_result(status, body),
                                   IF status \in {200, 204} THEN "ok" ELSE "fail",
                                   now)]
    /\ UNCHANGED <<pollVars, peerVars, sideVars>>
    /\ UNCHANGED <<now, global_window_start, path, watch>>

\* a network-level exception on either path (webhook.py:337-345,
\* rate_limiter.py:299-306)
SendException(c) ==
    /\ th[c].pc = "inflight"
    /\ th' = [th EXCEPT ![c] = after_exception(th[c], now)]
    /\ UNCHANGED <<pollVars, peerVars, sideVars>>
    /\ UNCHANGED <<now, buckets, global_rate_limit_reset, global_requests_made,
                   global_window_start, invalid_requests_count,
                   invalid_requests_window_start, path, recent, gUntil, kUntil, gEntered, kEntered, watch>>

\* time.sleep(wait_time) returns; continue with the next attempt
WakeBackoff(c) ==
    /\ th[c].pc = "backoff"
    /\ now >= th[c].wake
    /\ th' = [th EXCEPT ![c].pc = "wait", ![c].attempt = @ + 1, ![c].wake = 0,
                        ![c].status = 0]
    /\ UNCHANGED <<pollVars, peerVars, sideVars>>
    /\ UNCHANGED <<now, buckets, global_rate_limit_reset, global_requests_made,
                   global_window_start, invalid_requests_count,
                   invalid_requests_window_start, path, recent, gUntil, kUntil, gEntered, kEntered, watch>>

\* the clock advances; the observers forget what has left the rolling window
\* and the suspensions that have ended
Tick ==
    /\ now < MaxTime
    /\ now' = now + 1
    /\ recent' = IF watch = "window"
                 THEN <<0>> \o SubSeq(recent, 1, Len(recent) - 1)
                 ELSE recent
    /\ gUntil' = IF gUntil <= now' THEN 0 ELSE gUntil
    /\ kUntil' = [k \in Keys |-> IF kUntil[k] <= now' THEN 0 ELSE kUntil[k]]
    /\ gEntered' = IF gUntil' = 0 THEN {} ELSE gEntered
    /\ kEntered' = {c \in kEntered : kUntil'[th[c].key] # 0}
    /\ UNCHANGED <<pollVars, peerVars, sideVars>>
    /\ UNCHANGED <<buckets, global_rate_limit_reset, global_requests_made,
                   global_window_start, invalid_requests_count,
                   invalid_requests_window_start, th, path, watch>>

\* a time one tick nearer to the origin of the clock
Back(t) == IF t > 0 THEN t - 1 ELSE 0

\* the clock advances past MaxTime: the origin moves forward by one tick, so
\* that now stays MaxTime and every time the state holds is one tick nearer
TickOn ==
    /\ now = MaxTime
    /\ buckets' = [k \in Keys |->
                     [buckets[k] EXCEPT !.reset_time = Back(@)]]
    /\ global_rate_limit_reset' = Back(global_rate_limit_reset)
    /\ global_window_start' = Back(global_window_start)
    /\ invalid_requests_window_start' = Back(invalid_requests_window_start)
    /\ th' = [c \in Callers |->
                [th[c] EXCEPT !.wake = Back(@), !.blockedUntil = Back(@),
                              !.sentAt = Back(@)]]
    /\ gUntil' = Back(gUntil)
    /\ kUntil' = [k \in Keys |-> Back(kUntil[k])]
    /\ gEntered' = IF gUntil' = 0 THEN {} ELSE gEntered
    /\ kEntered' = {c \in kEntered : kUntil'[th[c].key] # 0}
    /\ peer_start' = Back(peer_start)
    /\ UNCHANGED <<pollVars, peer_made, peer_sent, sideVars>>
    /\ UNCHANGED <<now, global_requests_made, invalid_requests_count, path,
                   recent, watch>>

\* no unit has been started; the bot process of another channel as well
CallersAtRest ==
    /\ th = [c \in Callers |-> IdleThread]
    /\ path \in Paths
    /\ recent = [i \in 1..global_window_size |-> 0]
    /\ gUntil = 0
    /\ kUntil = [k \in Keys |-> 0]
    /\ gEntered = {}
    /\ kEntered = {}
    /\ peer_made = 0 /\ peer_start = 0 /\ peer_sent = 0

\* no key has been asked for
KeysAtRest == request_urls = <<>> /\ request_keys = <<>>

\* no request to /logs/clear is being served
ClearAtRest == clearing = [pc |-> "idle", latest |-> 0]

\* the supervisor is left out: `processes = []` (main.py:53), nothing started
SupervisorAtRest ==
    /\ processes = <<>>
    /\ supervisor = [pc |-> "off", dead |-> <<>>, found |-> {}, alive |-> 0,
                     cycles |-> 0]

\* the callers of one bot process, looked at on their own
InitThreads == CallersAtRest /\ KeysAtRest /\ ClearAtRest /\ SupervisorAtRest

\* DiscordRateLimiter.__init__ (rate_limiter.py:45-62)
LimiterAtRest ==
    /\ now = 0
    /\ buckets = [k \in Keys |-> NoBucket]
    /\ global_rate_limit_reset = 0
    /\ global_requests_made = 0
    /\ global_window_start = 0
    /\ invalid_requests_count = 0
    /\ invalid_requests_window_start = 0

InitLimiter == LimiterAtRest /\ InitThreads

\* a sequence number of the feed that holds no record
NoRecord == [present |-> FALSE, images |-> 0, videos |-> 0]

\* what the processing of a record is observed to have done
NoObs == [n |-> 0, last0 |-> 0, grouped0 |-> {}, calls |-> <<>>, lines |-> 0,
          step |-> "none", unsent |-> 0, downloaded |-> FALSE,
          attached |-> FALSE]

\* main() before its first scrape (webhook.py:594-598)
PollStart ==
    /\ pc = "fetch"
    /\ viewLo = 1 /\ viewHi = 0
    /\ message_boxes = <<>>
    /\ idx = 0
    /\ msg_log = {}
    /\ msg_temp = {}
    /\ last_processed_number = 0
    /\ grouped_media_ranges = {}
    /\ pollNo = 0
    /\ obs = NoObs
    /\ prev_boxes = <<>>
    /\ complete = FALSE /\ prevComplete = FALSE
    /\ pollCalls = 0 /\ pollWrites = 0
    /\ placeholder_sent = {}

\* the polling loop at rest, for the specifications of the limiter: an empty
\* feed and an empty Disgram.log
IdlePoll ==
    /\ PollStart
    /\ channel = [n \in 1..MaxSeq |-> NoRecord]
    /\ ledger = [n \in 1..MaxSeq |-> 0]

\* The steps of the threads in CS, which post to the keys in KS, against a
\* server that answers with the statuses in SS, the rate-limit headers in HS
\* and, on a 429, the bodies in BS.
NextOf(CS, KS, SS, HS, BS) ==
    \/ \E c \in CS, k \in KS : StartUnit(c, k)
    \/ \E c \in CS : CheckGlobal(c)
    \/ \E c \in CS : WakeGlobal(c)
    \/ \E c \in CS : CheckBucket(c)
    \/ \E c \in CS : WakeBucket(c)
    \/ \E c \in CS : Send(c)
    \/ \E c \in CS : WebhookSuccess(c)
    \/ \E c \in CS, s \in SS \cap ErrStatuses :
           \E h \in HS, b \in BodiesOf(s, BS) :
               WebhookHTTPError(c, s, HeadersAt(h, now), b)
    \/ \E c \in CS : WebhookHTTPErrorNoResponse(c)
    \/ \E c \in CS, s \in SS :
           \E h \in HS, b \in BodiesOf(s, BS) :
               ThreadResponse(c, s, HeadersAt(h, now), b)
    \/ \E c \in CS : SendException(c)
    \/ \E c \in CS : WakeBackoff(c)
    \/ Tick

LocalBodies == {b \in Bodies : ~b.global}

\* The limiter as a bot process uses it: webhook.py and threadhook.py run one
\* thread, which sends every unit of the process to one webhook URL.  The
\* server answers with any status and any headers; its 429s are per bucket.
NextRL == NextOf({"t1"}, {"k1"}, Statuses, Headers, LocalBodies)

InitRL == InitLimiter /\ watch = "none" /\ IdlePoll

SpecRL == InitRL /\ [][NextRL]_vars

\* One thread posting to two bucket keys; the server answers 200 or 429 with
\* any 429 body, without rate-limit headers or with those of a used-up bucket.  The observers of the 429
\* suspensions record.
NextSusp == NextOf({"t1"}, Keys, {200, 429}, {NoHeaders, Exhausted}, Bodies)

InitSusp == InitLimiter /\ watch = "suspension" /\ IdlePoll

SpecSusp == InitSusp /\ [][NextSusp]_vars

\* One thread posting to two bucket keys; the server answers 200 or 429 with
\* any headers; its 429s are per bucket.
NextFrame == NextOf({"t1"}, Keys, {200, 429}, Headers, LocalBodies)

SpecFrame == InitRL /\ [][NextFrame]_vars

\* The global window: one thread posts to one key, the server answers 200 or
\* 500, without rate-limit headers or with those of a used-up bucket.  The observer of the rolling
\* window records.
NextWindow == NextOf({"t1"}, {"k1"}, {200, 500}, {NoHeaders, Exhausted}, LocalBodies)

InitWindow == InitLimiter /\ watch = "window" /\ IdlePoll

SpecWindow == InitWindow /\ [][NextWindow]_vars

-----------------------------------------------------------------------------
(* Part I.  Properties of the limiter.                                     *)

\* C1: no rolling window of global_window_size holds more than global_limit
\* requests that were admitted by wait_for_rate_limit, sent, and counted by
\* _increment_global_counter, whatever the timing of the requests.
C1_RollingWindowWithinLimit == RollingCount <= global_limit

\* C2: after handle_response processed a 429 with global = true and
\* retry_after = d at time t, a request of any key that enters
\* wait_for_rate_limit afterwards is not sent before t + d.
C2_GlobalSuspensionHonoured ==
    [][\A c \in Callers :
          (th[c].pc = "admitted" /\ th'[c].pc = "inflight" /\ c \in gEntered)
              => now >= gUntil]_vars

\* C3: after handle_response processed a 429 with global = false and
\* retry_after = d for key K at time t, a request to K that enters
\* wait_for_rate_limit afterwards is not sent before t + d.
C3_BucketSuspensionHonoured ==
    [][\A c \in Callers :
          (th[c].pc = "admitted" /\ th'[c].pc = "inflight" /\ c \in kEntered)
              => now >= kUntil[th[c].key]]_vars

\* the step in which handle_response processes a 429 for the request of c
\* (under a server that answers 200 or 429 the 429s alone are invalid requests)
Handles429(c) ==
    /\ th[c].pc = "inflight"
    /\ invalid_requests_count' = invalid_requests_count + 1

C5_BucketWaitUntilReset ==
    \A c \in Callers :
        /\ th[c].pc = "admitted" => now >= th[c].blockedUntil
        /\ th[c].pc = "bsleep" => th[c].wake = th[c].blockedUntil

\* wait_for_rate_limit has returned for a call that found the bucket
\* exhausted, at or after the reset
C5_Witness ==
    /\ th["t1"].pc = "admitted"
    /\ th["t1"].blockedUntil > 0
    /\ now >= th["t1"].blockedUntil

\* The limiter over unbounded time: one thread posts to one key, the server
\* answers 200 or 429, without rate-limit headers or with those of a used-up
\* bucket, and the clock goes on after MaxTime.
NextLive ==
    \/ NextOf({"t1"}, {"k1"}, {200, 429}, {NoHeaders, Exhausted}, LocalBodies)
    \/ TickOn

\* The thread runs (wait_for_rate_limit has no blocking call but time.sleep)
\* and time passes.
FairLive ==
    /\ \A c \in {"t1"} : /\ WF_vars(CheckGlobal(c))
                         /\ WF_vars(WakeGlobal(c))
                         /\ WF_vars(CheckBucket(c))
                         /\ WF_vars(WakeBucket(c))
    /\ WF_vars(Tick)
    /\ WF_vars(TickOn)

SpecLive == InitRL /\ [][NextLive]_vars /\ FairLive

\* A limiter that has been in use: its invalid-request window began at its
\* construction or 600 seconds before now, and invalid_requests_count is 0
\* or at max_invalid_requests.  One thread posts to one key; the server
\* answers with any status.
InitInvalid ==
    /\ now = 0
    /\ buckets = [k \in Keys |-> NoBucket]
    /\ global_rate_limit_reset = 0
    /\ global_requests_made = 0
    /\ global_window_start = 0
    /\ invalid_requests_count \in {0, max_invalid_requests}
    /\ invalid_requests_window_start \in {0, 0 - invalid_requests_window}
    /\ InitThreads
    /\ watch = "none"
    /\ IdlePoll

NextInvalid ==
    NextOf({"t1"}, {"k1"}, Statuses, {NoHeaders, Exhausted}, LocalBodies)

SpecInvalid == InitInvalid /\ [][NextInvalid]_vars

\* Two threads of one process share the limiter; each posts to its own key.
\* The server answers 200 or 429, without rate-limit headers or with those
\* of a used-up bucket; its 429s are per bucket.
NextThreads ==
    \/ NextOf({"t1"}, {"k1"}, {200, 429}, {NoHeaders, Exhausted}, LocalBodies)
    \/ NextOf({"t2"}, {"k2"}, {200, 429}, {NoHeaders, Exhausted}, LocalBodies)

SpecThreads == InitRL /\ [][NextThreads]_vars

\* The bot process of another channel sends a request to the same webhook:
\* wait_for_rate_limit of its own discord_rate_limiter admits it without a
\* wait, and _increment_global_counter counts it there (webhook.py:302-312).
PeerRequest ==
    /\ peer_sent < MaxPeerRequests
    /\ LET r == check_global_rate_limit(peer_made, peer_start, now)
       IN  /\ r.wait = 0
           /\ peer_made' = r.made + 1
           /\ peer_start' = r.start
    /\ peer_sent' = peer_sent + 1
    /\ UNCHANGED <<rlVars, pollVars, sideVars>>

\* Two bot processes, as start_bot_processes starts them for two channels:
\* this one, with one thread posting to one key, and the one of the other
\* channel, which posts to the same webhook.
NextProcesses ==
    \/ NextOf({"t1"}, {"k1"}, {200, 429}, {NoHeaders, Exhausted}, LocalBodies)
    \/ PeerRequest

SpecProcesses == InitRL /\ [][NextProcesses]_vars

-----------------------------------------------------------------------------
(* The endpoint key.  A url is a sequence of characters; "/webhooks/", the *)
(* scheme and host, a webhook id and a query parameter are one character   *)
(* each here, the token is spelled out.                                    *)

\* the characters of a token; no "/" and no "?" among them
TokenChars == {"a", "b"}

\* parts[1][:8] (rate_limiter.py:75)
token_prefix_length == 8

WebhookIds == {"id1", "id2"}

\* the tokens: up to MaxTokenLen characters, alike in all but the last two
\* of the first token_prefix_length
Tokens ==
    {t \in UNION {[1..n -> TokenChars] : n \in 0..MaxTokenLen} :
        \A i \in DOMAIN t : i < token_prefix_length - 1 => t[i] = "a"}

\* no query string, or ?thread_id=... as start_bot_processes appends it
\* (main.py:500)
Queries == {<<>>, <<"?", "thread_id=1">>, <<"?", "thread_id=2">>}

\* a request: the webhook id and the token of its url, and its query string
Requests == [id : WebhookIds, token : Tokens, query : Queries]

\* the url of a request, https://discord.com/api/webhooks/<id>/<token><query>
url_of(r) == <<"https://discord.com/api", "/webhooks/", r.id, "/">>
             \o r.token \o r.query

\* the first index of character a in s, 0 if there is none
RECURSIVE index_of(_, _, _)
index_of(s, a, i) ==
    IF i > Len(s) THEN 0 ELSE IF s[i] = a THEN i ELSE index_of(s, a, i + 1)

\* s.split(a)[0]
split_first(s, a) ==
    IF index_of(s, a, 1) = 0 THEN s ELSE SubSeq(s, 1, index_of(s, a, 1) - 1)

\* what follows the first a in s, which holds one
split_rest(s, a) == SubSeq(s, index_of(s, a, 1) + 1, Len(s))

\* _get_bucket_key (rate_limiter.py:64-79)
get_bucket_key(url, method) ==
    IF index_of(url, "/webhooks/", 1) > 0
    THEN LET base_url == split_first(url, "?")
             rest     == split_first(split_rest(base_url, "/webhooks/"),
                                     "/webhooks/")
             webhook_id == split_first(rest, "/")
             token    == IF index_of(rest, "/", 1) = 0 THEN <<>>
                         ELSE split_first(split_rest(rest, "/"), "/")
         IN  IF token # <<>>
             THEN <<method, "webhook", webhook_id,
                    SubSeq(token, 1, Min(token_prefix_length, Len(token)))>>
             ELSE <<method, "webhook", webhook_id>>
    ELSE <<method, url>>

\* request i asks for its key, as wait_for_rate_limit and handle_response
\* do (rate_limiter.py:189, 212)
AskKey(i) ==
    /\ i \in DOMAIN request_urls
    /\ request_keys[i] = <<>>
    /\ request_keys' = [request_keys EXCEPT
                           ![i] = get_bucket_key(url_of(request_urls[i]), "POST")]
    /\ UNCHANGED <<request_urls, clearing, processes, supervisor>>
    /\ UNCHANGED <<rlVars, pollVars, peerVars>>

\* two requests, to any of the webhooks, with any of the tokens and queries
InitKeys ==
    /\ LimiterAtRest /\ CallersAtRest /\ watch = "none" /\ IdlePoll
    /\ ClearAtRest /\ SupervisorAtRest
    /\ request_urls \in [1..2 -> Requests]
    /\ request_keys = <<<<>>, <<>>>>

NextKeys == AskKey(1) \/ AskKey(2)

SpecKeys == InitKeys /\ [][NextKeys]_vars

-----------------------------------------------------------------------------
(* Part II.  The polling loop of one channel: main() of webhook.py         *)
(* (593-682) and of threadhook.py (653-741), which differ only in the      *)
(* webhook_url argument they pass on.                                      *)
(*   fetch         about to call scrapeTelegramMessageBox                  *)
(*   record        at the top of the for loop, record idx is next          *)
(*   placeholders  in sendMissingMessagesFiltered                          *)
(*   dedup         at `if is_message_logged(...)` for record idx           *)
(*   send          about to call sendMessage for record idx                *)
(*   sleep         in time.sleep(COOLDOWN)                                 *)
(* A record is its sequence number; its media are channel[n].  The send of *)
(* one unit through the limiter (Part I) is its outcome here: True/False.  *)

\* the feeds whose records carry images in IS and videos in VS
FeedsOf(IS, VS) ==
    [1..MaxSeq -> {NoRecord} \cup
                  [present : {TRUE}, images : IS, videos : VS]]

\* total_media = len(all_images) + len(all_videos) (webhook.py:651)
total_media(rec) == rec.images + rec.videos

\* is_message_logged (webhook.py:23-32): some line of Disgram.log holds a
\* permalink of the channel with a number >= number
is_message_logged(lg, number) == \E m \in number..MaxSeq : lg[m] > 0

\* filtered_missing (webhook.py:630-633): the numbers of a..b not in grouped,
\* ascending
RECURSIVE filtered_missing(_, _, _)
filtered_missing(a, b, grouped) ==
    IF a > b THEN <<>>
    ELSE (IF a \notin grouped THEN <<a>> ELSE <<>>)
         \o filtered_missing(a + 1, b, grouped)

\* the numbers marked as components of the grouped media at current_number
\* (webhook.py:665-668)
grouped_components(current_number, total) ==
    IF total > 1 THEN {current_number + i : i \in 1..(total - 1)} ELSE {}

\* sendMessage takes the grouped-media path (webhook.py:352-356)
takes_grouped_path(rec) == rec.images > 1 \/ rec.videos > 1

\* permalink lines sendMessage writes to Disgram.log before it sends
\* (webhook.py:357 and 468, or 408)
send_message_lines(rec) == IF takes_grouped_path(rec) THEN 2 ELSE 1

\* One Sink call: the unit and what send_with_rate_limiting returned.
Call(kind, n, i, ok) == [kind |-> kind, n |-> n, i |-> i, ok |-> ok]

\* video_sent_as_attachment in the single-media path (webhook.py:377-386):
\* the record has a video and download_video returned its file
video_sent_as_attachment(rec, dlv) == rec.videos >= 1 /\ dlv[1]

\* the video file is among the files of the main unit (webhook.py:404-406,
\* 415-416); sendGroupedMediaMessage attaches no video to its main unit
main_video_file(rec, dlv) ==
    ~takes_grouped_path(rec) /\ video_sent_as_attachment(rec, dlv)

\* a variant that sends the video link whether or not the video is attached
single_calls_link_always(kind, n, rec, dlv, out) ==
    LET main == Call(kind, n, 1, out[1])
    IN  IF ~out[1] THEN <<main>>
        ELSE IF rec.videos >= 1
        THEN <<main, Call("videolink", n, 1, out[2])>>
        ELSE <<main>>

\* sendMessage, single-media path (webhook.py:361-442): the Sink calls made
\* for record n; dlv[i]: video i was downloaded; out[k]: the k-th send succeeds
single_calls(kind, n, rec, dlv, out) ==
    LET main == Call(kind, n, 1, out[1])
    IN  IF ~out[1] THEN <<main>>
        ELSE IF rec.videos >= 1 /\ ~video_sent_as_attachment(rec, dlv)
        THEN <<main, Call("videolink", n, 1, out[2])>>
        ELSE <<main>>

\* sendGroupedMediaMessage, the images after the first (webhook.py:483-516):
\* image i is sent when its download succeeded
RECURSIVE image_calls(_, _, _, _, _, _)
image_calls(calls, n, i, images, dli, out) ==
    IF i > images THEN calls
    ELSE image_calls(IF dli[i]
                     THEN Append(calls, Call("image", n, i, out[Len(calls) + 1]))
                     ELSE calls,
                     n, i + 1, images, dli, out)

\* sendGroupedMediaMessage, the videos (webhook.py:518-573): the attachment
\* when the download succeeded, then the link when no attachment went out
RECURSIVE video_calls(_, _, _, _, _, _)
video_calls(calls, n, i, videos, dlv, out) ==
    IF i > videos THEN calls
    ELSE LET att   == Call("video", n, i, out[Len(calls) + 1])
             tried == IF dlv[i] THEN Append(calls, att) ELSE calls
             sent  == dlv[i] /\ att.ok
             after == IF sent THEN tried
                      ELSE Append(tried,
                                  Call("videolink", n, i, out[Len(tried) + 1]))
         IN  video_calls(after, n, i + 1, videos, dlv, out)

\* a variant that goes on to the other media when the main message failed
grouped_calls_after_failure(n, rec, dli, dlv, out) ==
    video_calls(image_calls(<<Call("main", n, 1, out[1])>>, n, 2, rec.images,
                            dli, out),
                n, 1, rec.videos, dlv, out)

\* a variant that sends the videos before the other images
grouped_calls_videos_first(n, rec, dli, dlv, out) ==
    LET main == Call("main", n, 1, out[1])
    IN  IF ~out[1] THEN <<main>>
        ELSE image_calls(video_calls(<<main>>, n, 1, rec.videos, dlv, out),
                         n, 2, rec.images, dli, out)

\* sendGroupedMediaMessage (webhook.py:444-578)
grouped_calls(n, rec, dli, dlv, out) ==
    LET main == Call("main", n, 1, out[1])
    IN  IF ~out[1] THEN <<main>>
        ELSE video_calls(image_calls(<<main>>, n, 2, rec.images, dli, out),
                         n, 1, rec.videos, dlv, out)

\* sendMessage (webhook.py:349-442)
send_message_calls(kind, n, rec, dli, dlv, out) ==
    IF takes_grouped_path(rec)
    THEN grouped_calls(n, rec, dli, dlv, out)
    ELSE single_calls(kind, n, rec, dlv, out)

\* the most Sink calls sendMessage makes for a record
max_calls(rec) ==
    IF takes_grouped_path(rec)
    THEN 1 + Max(rec.images - 1, 0) + 2 * rec.videos
    ELSE 1 + (IF rec.videos >= 1 THEN 1 ELSE 0)

\* the outcomes of the downloads of the images and of the videos of a record
ImageDownloads(rec) == [2..rec.images -> BOOLEAN]
VideoDownloads(rec) == [1..rec.videos -> BOOLEAN]

\* every download_image and download_video of the record returned a file
all_downloaded(dli, dlv) ==
    /\ \A i \in DOMAIN dli : dli[i]
    /\ \A i \in DOMAIN dlv : dlv[i]

\* the records of the feed page that shows the sequence numbers lo..hi, in
\* the order of the page (scrapeTelegramMessageBox, webhook.py:34-52)
RECURSIVE page(_, _, _)
page(feed, lo, hi) ==
    IF lo > hi THEN <<>>
    ELSE (IF feed[lo].present THEN <<lo>> ELSE <<>>) \o page(feed, lo + 1, hi)

\* the placeholders of sendMissingMessagesFiltered (webhook.py:586-591): one
\* sendMessage without media for each missing number
placeholder_calls(missing, out) ==
    [i \in 1..Len(missing) |-> Call("placeholder", missing[i], 1, out[i])]

\* Disgram.log after sendMissingMessagesFiltered: a permalink line for each
\* missing number (webhook.py:590) and the one sendMessage writes (408)
placeholder_lines(lg, missing) ==
    [m \in DOMAIN lg |->
        lg[m] + (IF \E i \in 1..Len(missing) : missing[i] = m THEN 2 ELSE 0)]

\* a variant that looks up the number after the record's
is_next_grouped_component(current_number, grouped) ==
    (current_number + 1) \in grouped

\* the condition of the grouped-media skip (webhook.py:622)
is_grouped_component(current_number, grouped) == current_number \in grouped

\* a variant that sends a placeholder for every number of the gap
gap_before_unfiltered(last, current_number, grouped) ==
    IF last > 0 /\ current_number > last + 1
    THEN filtered_missing(last + 1, current_number - 1, {})
    ELSE <<>>

\* the gap before current_number for which placeholders go out
\* (webhook.py:628-636)
gap_before(last, current_number, grouped) ==
    IF last > 0 /\ current_number > last + 1
    THEN filtered_missing(last + 1, current_number - 1, grouped)
    ELSE <<>>

\* a variant that walks the page from its end
tg_box_from_end(boxes, i) == boxes[Len(boxes) + 1 - i]

\* the record of the i-th pass of `for tg_box in message_boxes`
\* (webhook.py:607)
tg_box(boxes, i) == boxes[i]

\* the numbers sendMissingMessagesFiltered is called with in the pass for
\* current_number (webhook.py:622, 628-636)
placeholder_numbers(last, current_number, grouped) ==
    IF is_grouped_component(current_number, grouped) THEN {}
    ELSE LET missing == gap_before(last, current_number, grouped)
         IN  {missing[i] : i \in 1..Len(missing)}

\* One pass of the for loop (webhook.py:607-673) for the record at idx; out
\* are the outcomes of the sends it makes, dli and dlv of its downloads.
ProcessRecord ==
    /\ pc = "record"
    /\ idx <= Len(message_boxes)
    /\ LET current_number == tg_box(message_boxes, idx)
           rec     == channel[current_number]
           missing == gap_before(last_processed_number, current_number,
                                 grouped_media_ranges)
           ledger1 == placeholder_lines(ledger, missing)
           seen    == [n |-> current_number, last0 |-> last_processed_number,
                       grouped0 |-> grouped_media_ranges, calls |-> <<>>,
                       lines |-> 0, step |-> "none", unsent |-> 0,
                       downloaded |-> FALSE, attached |-> FALSE]
       IN  IF is_grouped_component(current_number, grouped_media_ranges)
           THEN \* webhook.py:622-626
                /\ msg_temp' = msg_temp \cup {current_number}
                /\ last_processed_number' = current_number
                /\ obs' = [seen EXCEPT !.step = "grouped"]
                /\ UNCHANGED <<grouped_media_ranges, ledger, pollCalls,
                               pollWrites>>
           ELSE IF is_message_logged(ledger1, current_number)
           THEN \* webhook.py:628-640
                \E out \in [1..Len(missing) -> BOOLEAN] :
                    /\ ledger' = ledger1
                    /\ obs' = [seen EXCEPT !.step = "logged",
                                           !.calls = placeholder_calls(missing, out)]
                    /\ pollCalls' = pollCalls + Len(missing)
                    /\ pollWrites' = pollWrites + 2 * Len(missing)
                    /\ UNCHANGED <<msg_temp, last_processed_number,
                                   grouped_media_ranges>>
           ELSE IF current_number \notin msg_log
           THEN \* webhook.py:628-636, 642-673
                \E out \in [1..(Len(missing) + max_calls(rec)) -> BOOLEAN],
                   dli \in ImageDownloads(rec), dlv \in VideoDownloads(rec) :
                    LET own   == [k \in 1..max_calls(rec) |-> out[Len(missing) + k]]
                        units == send_message_calls("main", current_number, rec,
                                                    dli, dlv, own)
                        lines == 1 + send_message_lines(rec)
                    IN  /\ ledger' = [ledger1 EXCEPT ![current_number] = @ + lines]
                        /\ grouped_media_ranges' =
                               grouped_media_ranges
                               \cup grouped_components(current_number,
                                                       total_media(rec))
                        /\ msg_temp' = msg_temp \cup {current_number}
                        /\ last_processed_number' = current_number
                        /\ obs' = [seen EXCEPT
                                      !.step = "new",
                                      !.lines = lines,
                                      !.downloaded = all_downloaded(dli, dlv),
                                      !.attached = main_video_file(rec, dlv),
                                      !.calls = placeholder_calls(missing, out)
                                                \o units]
                        /\ pollCalls' = pollCalls + Len(missing) + Len(units)
                        /\ pollWrites' = pollWrites + 2 * Len(missing) + lines
           ELSE \* webhook.py:628-636, 660, 672-673
                \E out \in [1..Len(missing) -> BOOLEAN] :
                    /\ ledger' = ledger1
                    /\ msg_temp' = msg_temp \cup {current_number}
                    /\ last_processed_number' = current_number
                    /\ obs' = [seen EXCEPT !.step = "seen",
                                           !.calls = placeholder_calls(missing, out)]
                    /\ pollCalls' = pollCalls + Len(missing)
                    /\ pollWrites' = pollWrites + 2 * Len(missing)
                    /\ UNCHANGED grouped_media_ranges
    /\ placeholder_sent' =
           placeholder_sent
           \cup placeholder_numbers(last_processed_number,
                                    tg_box(message_boxes, idx),
                                    grouped_media_ranges)
    /\ idx' = idx + 1
    /\ UNCHANGED <<pc, channel, viewLo, viewHi, message_boxes, msg_log, pollNo,
                   prev_boxes, complete, prevComplete>>
    /\ UNCHANGED <<rlVars, peerVars, sideVars>>

\* scrapeTelegramMessageBox returns (webhook.py:602-606): the page shows the
\* numbers lo..hi; the feed only grows and the page only moves forward
Fetch ==
    /\ pc = "fetch"
    /\ pollNo < MaxPolls
    /\ \E lo \in viewLo..MaxSeq, hi \in viewHi..MaxSeq :
          /\ lo <= hi
          /\ viewLo' = lo /\ viewHi' = hi
          /\ message_boxes' = page(channel, lo, hi)
    /\ pc' = IF message_boxes' = <<>> THEN "fetch" ELSE "record"
    /\ idx' = 1
    /\ msg_temp' = {}
    /\ pollNo' = pollNo + 1
    /\ prev_boxes' = message_boxes
    /\ prevComplete' = complete
    /\ complete' = FALSE
    /\ pollCalls' = 0 /\ pollWrites' = 0
    /\ obs' = NoObs
    /\ UNCHANGED <<channel, msg_log, last_processed_number,
                   grouped_media_ranges, ledger, placeholder_sent>>
    /\ UNCHANGED <<rlVars, peerVars, sideVars>>

\* the for loop is over (webhook.py:675-679)
EndPoll ==
    /\ pc = "record"
    /\ idx > Len(message_boxes)
    /\ msg_log' = msg_temp
    /\ complete' = TRUE
    /\ pc' = "sleep"
    /\ UNCHANGED <<channel, viewLo, viewHi, message_boxes, idx, msg_temp,
                   last_processed_number, grouped_media_ranges, ledger, pollNo,
                   obs, prev_boxes, prevComplete, pollCalls, pollWrites,
                   placeholder_sent>>
    /\ UNCHANGED <<rlVars, peerVars, sideVars>>

\* scrapeTelegramMessageBox raises something other than a RequestException
\* (webhook.py:42-43): the except clause of main logs it (680-681)
FetchException ==
    /\ pc = "fetch"
    /\ pollNo < MaxPolls
    /\ pc' = "sleep"
    /\ idx' = 1
    /\ msg_temp' = {}
    /\ message_boxes' = <<>>
    /\ pollNo' = pollNo + 1
    /\ prev_boxes' = message_boxes
    /\ prevComplete' = complete
    /\ complete' = FALSE
    /\ pollCalls' = 0 /\ pollWrites' = 0
    /\ obs' = [NoObs EXCEPT !.step = "exception"]
    /\ UNCHANGED <<channel, viewLo, viewHi, msg_log, last_processed_number,
                   grouped_media_ranges, ledger, placeholder_sent>>
    /\ UNCHANGED <<rlVars, peerVars, sideVars>>

\* a variant in which the exception leaves main
RecordExceptionUncaught ==
    /\ pc = "record"
    /\ idx <= Len(message_boxes)
    /\ pc' = "stopped"
    /\ obs' = [obs EXCEPT !.step = "exception"]
    /\ UNCHANGED <<channel, viewLo, viewHi, message_boxes, idx, msg_log,
                   msg_temp, last_processed_number, grouped_media_ranges,
                   ledger, pollNo, prev_boxes, complete, prevComplete,
                   pollCalls, pollWrites, placeholder_sent>>
    /\ UNCHANGED <<rlVars, peerVars, sideVars>>

\* an exception in the parsing of the record at idx (webhook.py:608-619) ends
\* the poll: the except clause of main logs it (680-681)
RecordException ==
    /\ pc = "record"
    /\ idx <= Len(message_boxes)
    /\ pc' = "sleep"
    /\ obs' = [obs EXCEPT !.step = "exception"]
    /\ UNCHANGED <<channel, viewLo, viewHi, message_boxes, idx, msg_log,
                   msg_temp, last_processed_number, grouped_media_ranges,
                   ledger, pollNo, prev_boxes, complete, prevComplete,
                   pollCalls, pollWrites, placeholder_sent>>
    /\ UNCHANGED <<rlVars, peerVars, sideVars>>

\* time.sleep(COOLDOWN) returns (webhook.py:682)
Sleep ==
    /\ pc = "sleep"
    /\ pc' = "fetch"
    /\ UNCHANGED <<channel, viewLo, viewHi, message_boxes, idx, msg_log,
                   msg_temp, last_processed_number, grouped_media_ranges,
                   ledger, pollNo, obs, prev_boxes, complete, prevComplete,
                   pollCalls, pollWrites, placeholder_sent>>
    /\ UNCHANGED <<rlVars, peerVars, sideVars>>

\* The supervisor ends the process, process.terminate() (main.py:169, 589)
\* or process.kill() (172, 596), while the loop is not inside sendMessage.
\* webhook.py and threadhook.py install no signal handler.
Terminate ==
    /\ pc \in {"fetch", "record", "sleep"}
    /\ pc' = "stopped"
    /\ UNCHANGED <<channel, viewLo, viewHi, message_boxes, idx, msg_log,
                   msg_temp, last_processed_number, grouped_media_ranges,
                   ledger, pollNo, obs, prev_boxes, complete, prevComplete,
                   pollCalls, pollWrites, placeholder_sent>>
    /\ UNCHANGED <<rlVars, peerVars, sideVars>>

\* The supervisor ends the process inside sendMessage for a new record
\* (webhook.py:670), after k of its Sink calls: the placeholders are out, the
\* permalink lines are written (661, 408) and the components registered
\* (665-668); lines 672-673 are not reached.
TerminateInDelivery ==
    /\ pc = "record"
    /\ idx <= Len(message_boxes)
    /\ LET current_number == tg_box(message_boxes, idx)
           rec     == channel[current_number]
           missing == gap_before(last_processed_number, current_number,
                                 grouped_media_ranges)
           ledger1 == placeholder_lines(ledger, missing)
       IN  /\ ~is_grouped_component(current_number, grouped_media_ranges)
           /\ ~is_message_logged(ledger1, current_number)
           /\ current_number \notin msg_log
           /\ \E out \in [1..(Len(missing) + max_calls(rec)) -> BOOLEAN],
                 dli \in ImageDownloads(rec), dlv \in VideoDownloads(rec) :
                  LET own   == [k \in 1..max_calls(rec) |-> out[Len(missing) + k]]
                      units == send_message_calls("main", current_number, rec,
                                                  dli, dlv, own)
                      lines == 1 + send_message_lines(rec)
                  IN  \E k \in 1..Len(units) :
                        /\ ledger' = [ledger1 EXCEPT ![current_number] = @ + lines]
                        /\ grouped_media_ranges' =
                               grouped_media_ranges
                               \cup grouped_components(current_number,
                                                       total_media(rec))
                        /\ obs' = [n |-> current_number,
                                   last0 |-> last_processed_number,
                                   grouped0 |-> grouped_media_ranges,
                                   calls |-> placeholder_calls(missing, out)
                                             \o SubSeq(units, 1, k),
                                   lines |-> lines,
                                   step |-> "terminated",
                                   unsent |-> Len(units) - k,
                                   downloaded |-> all_downloaded(dli, dlv),
                                   attached |-> main_video_file(rec, dlv)]
                        /\ pollCalls' = pollCalls + Len(missing) + k
                        /\ pollWrites' = pollWrites + 2 * Len(missing) + lines
    /\ placeholder_sent' =
           placeholder_sent
           \cup placeholder_numbers(last_processed_number,
                                    tg_box(message_boxes, idx),
                                    grouped_media_ranges)
    /\ pc' = "stopped"
    /\ UNCHANGED <<channel, viewLo, viewHi, message_boxes, idx, msg_log,
                   msg_temp, last_processed_number, pollNo, prev_boxes,
                   complete, prevComplete>>
    /\ UNCHANGED <<rlVars, peerVars, sideVars>>

\* Disgram.log as a run finds it: empty, or with the permalink lines of an
\* earlier run, of which the highest number decides is_message_logged
Ledgers ==
    {[n \in 1..MaxSeq |-> IF n = p THEN 1 ELSE 0] : p \in 0..MaxSeq}

\* a channel whose records carry one image or an album of images
InitPoll ==
    /\ PollStart
    /\ channel \in FeedsOf(1..MaxImages, {0})
    /\ ledger \in Ledgers

NextPoll ==
    \/ Fetch
    \/ FetchException
    \/ ProcessRecord
    \/ EndPoll
    \/ RecordException
    \/ Sleep

InitPollSpec == InitLimiter /\ path = "webhook" /\ watch = "none" /\ InitPoll

SpecPoll == InitPollSpec /\ [][NextPoll]_vars

\* a channel whose first MaxMediaSeq records carry text, an image or an album
\* of images, each with or without videos
InitMedia ==
    /\ PollStart
    /\ channel \in {f \in FeedsOf(0..MaxImages, 0..MaxVideos) :
                        \A n \in 1..MaxSeq : n > MaxMediaSeq => f[n] = NoRecord}
    /\ ledger \in Ledgers

InitMediaSpec == InitLimiter /\ path = "webhook" /\ watch = "none" /\ InitMedia

SpecMedia == InitMediaSpec /\ [][NextPoll]_vars

\* a channel with one record, which carries up to MaxAlbumImages images and
\* up to MaxAlbumVideos videos
InitAlbum ==
    /\ PollStart
    /\ channel \in {[n \in 1..MaxSeq |-> IF n = 1 THEN r ELSE NoRecord] :
                        r \in [present : {TRUE}, images : 0..MaxAlbumImages,
                               videos : 0..MaxAlbumVideos]}
    /\ ledger \in Ledgers

InitAlbumSpec == InitLimiter /\ path = "webhook" /\ watch = "none" /\ InitAlbum

SpecAlbum == InitAlbumSpec /\ [][NextPoll]_vars

\* the polling loop under a supervisor that may end the process
NextShutdown ==
    \/ Fetch
    \/ FetchException
    \/ ProcessRecord
    \/ EndPoll
    \/ RecordException
    \/ Sleep
    \/ Terminate
    \/ TerminateInDelivery

SpecShutdown == InitMediaSpec /\ [][NextShutdown]_vars

\* clear_disgram_log (main.py:335-391) on the lines of the channel: what
\* is written back is one line with the highest number found (361-373)
clear_disgram_log(lg) ==
    [n \in DOMAIN lg |->
        IF lg[n] > 0 /\ \A m \in DOMAIN lg : m > n => lg[m] = 0 THEN 1 ELSE 0]

\* a POST to /logs/clear is served by the supervisor while the loop runs
ClearLog ==
    /\ ledger' = clear_disgram_log(ledger)
    /\ UNCHANGED <<pc, channel, viewLo, viewHi, message_boxes, idx, msg_log,
                   msg_temp, last_processed_number, grouped_media_ranges,
                   pollNo, obs, prev_boxes, complete, prevComplete,
                   pollCalls, pollWrites, placeholder_sent>>
    /\ UNCHANGED <<rlVars, peerVars, sideVars>>

\* the polling loop next to the /logs/clear endpoint
NextClear ==
    \/ Fetch
    \/ FetchException
    \/ ProcessRecord
    \/ EndPoll
    \/ RecordException
    \/ Sleep
    \/ ClearLog

SpecClear == InitMediaSpec /\ [][NextClear]_vars

\* latest_messages[channel] once clear_disgram_log has read the file
\* (main.py:351-364): the highest number of a permalink of the channel, 0
\* when there is none
latest_message(lg) ==
    IF \E n \in DOMAIN lg : lg[n] > 0
    THEN CHOOSE n \in DOMAIN lg : lg[n] > 0 /\ \A m \in DOMAIN lg : m > n => lg[m] = 0
    ELSE 0

\* clear_disgram_log has read Disgram.log (main.py:351-364); the bot
\* process, which appends to the file without any lock (webhook.py:20-21),
\* runs on
ClearRead ==
    /\ clearing.pc = "idle"
    /\ clearing' = [pc |-> "read", latest |-> latest_message(ledger)]
    /\ UNCHANGED <<request_urls, request_keys, processes, supervisor>>
    /\ UNCHANGED <<rlVars, pollVars, peerVars>>

\* clear_disgram_log writes the file anew, mode 'w', from what it has read
\* (main.py:370-374)
ClearWrite ==
    /\ clearing.pc = "read"
    /\ ledger' = [n \in DOMAIN ledger |-> IF n = clearing.latest THEN 1 ELSE 0]
    /\ clearing' = [pc |-> "idle", latest |-> 0]
    /\ UNCHANGED <<pc, channel, viewLo, viewHi, message_boxes, idx, msg_log,
                   msg_temp, last_processed_number, grouped_media_ranges,
                   pollNo, obs, prev_boxes, complete, prevComplete,
                   pollCalls, pollWrites, placeholder_sent>>
    /\ UNCHANGED <<request_urls, request_keys, processes, supervisor>>
    /\ UNCHANGED <<rlVars, peerVars>>

\* the polling loop next to a /logs/clear request served in its two steps
NextClearRace ==
    \/ Fetch
    \/ FetchException
    \/ ProcessRecord
    \/ EndPoll
    \/ RecordException
    \/ Sleep
    \/ ClearRead
    \/ ClearWrite

SpecClearRace == InitMediaSpec /\ [][NextClearRace]_vars

\* time.sleep(COOLDOWN) returns and the while loop calls
\* scrapeTelegramMessageBox again, which returns or raises
FairPoll ==
    /\ WF_vars(Sleep)
    /\ WF_vars(Fetch \/ FetchException)

SpecMediaLive == InitMediaSpec /\ [][NextPoll]_vars /\ FairPoll

-----------------------------------------------------------------------------
(* The supervisor: __main__ of main.py (528-576).  Channels[i] is i; an    *)
(* entry of `processes` is the channel its bot process was started for,    *)
(* whether the process still runs, and the cycle in which it was started   *)
(* (0: before the first cycle).                                            *)
(*   boot     about to call start_bot_processes                            *)
(*   sleep    in time.sleep(30)                                            *)
(*   restart  in `for dead_idx in dead_processes`                          *)
(*   fresh    about to call check_log_freshness                            *)
(*   crashed  an exception other than KeyboardInterrupt has left the loop  *)

\* subprocess.Popen for Channels[i] returned a process (main.py:497-514)
bot_process(i, cycle) == [channel |-> i, alive |-> TRUE, born |-> cycle]

\* start_bot_processes on an empty list (main.py:486-520): a process for
\* each of the first k channels; k < len(Channels) when Popen raised for
\* channel k + 1 and the except clause ended the loop (519-520)
start_bot_processes(k, cycle) == [i \in 1..k |-> bot_process(i, cycle)]

\* dead_processes of check_process_health (main.py:87-97): the indices of
\* the entries whose process has ended, ascending
RECURSIVE dead_indices(_, _)
dead_indices(ps, i) ==
    IF i > Len(ps) THEN <<>>
    ELSE (IF ps[i].alive THEN <<>> ELSE <<i>>) \o dead_indices(ps, i + 1)

\* start_bot_processes() of __main__ (main.py:533)
StartBotProcesses ==
    /\ supervisor.pc = "boot"
    /\ \E k \in 0..NumChannels : processes' = start_bot_processes(k, 0)
    /\ supervisor' = [supervisor EXCEPT !.pc = "sleep"]
    /\ UNCHANGED <<request_urls, request_keys, clearing>>
    /\ UNCHANGED <<rlVars, pollVars, peerVars>>

\* a bot process ends
ProcessDies(i) ==
    /\ supervisor.pc # "boot"
    /\ i \in DOMAIN processes
    /\ processes[i].alive
    /\ processes' = [processes EXCEPT ![i].alive = FALSE]
    /\ UNCHANGED <<request_urls, request_keys, clearing, supervisor>>
    /\ UNCHANGED <<rlVars, pollVars, peerVars>>

\* time.sleep(30) returns and check_process_health is called
\* (main.py:546-549)
CheckHealth ==
    /\ supervisor.pc = "sleep"
    /\ supervisor.cycles < MaxCycles
    /\ LET dead == dead_indices(processes, 1)
       IN  supervisor' = [pc     |-> IF dead # <<>> THEN "restart" ELSE "fresh",
                          dead   |-> dead,
                          found  |-> {dead[j] : j \in 1..Len(dead)},
                          alive  |-> Len(processes) - Len(dead),
                          cycles |-> supervisor.cycles + 1]
    /\ UNCHANGED <<request_urls, request_keys, clearing, processes>>
    /\ UNCHANGED <<rlVars, pollVars, peerVars>>

\* one pass of `for dead_idx in dead_processes` in which Popen returns
\* (main.py:551-569)
RestartDead ==
    /\ supervisor.pc = "restart"
    /\ LET dead_idx == Head(supervisor.dead)
       IN  /\ processes' =
                 IF dead_idx <= Len(processes) /\ dead_idx <= NumChannels
                 THEN [processes EXCEPT
                          ![dead_idx] = bot_process(dead_idx, supervisor.cycles)]
                 ELSE processes
           /\ supervisor' = [supervisor EXCEPT
                                !.dead = Tail(@),
                                !.pc = IF Tail(supervisor.dead) = <<>>
                                       THEN "fresh" ELSE "restart"]
    /\ UNCHANGED <<request_urls, request_keys, clearing>>
    /\ UNCHANGED <<rlVars, pollVars, peerVars>>

\* one pass of that loop in which Popen raises (an OSError: no memory, no
\* process slot): the try of __main__ catches KeyboardInterrupt only
\* (main.py:545, 578), the exception leaves the loop
RestartRaises ==
    /\ supervisor.pc = "restart"
    /\ supervisor' = [supervisor EXCEPT !.pc = "crashed"]
    /\ UNCHANGED <<request_urls, request_keys, clearing, processes>>
    /\ UNCHANGED <<rlVars, pollVars, peerVars>>

\* check_log_freshness finds the log fresh, or no process was alive
\* (main.py:572-573): the cycle is over
LogFresh ==
    /\ supervisor.pc = "fresh"
    /\ supervisor' = [supervisor EXCEPT !.pc = "sleep"]
    /\ UNCHANGED <<request_urls, request_keys, clearing, processes>>
    /\ UNCHANGED <<rlVars, pollVars, peerVars>>

\* the log is stale and alive_count > 0: restart_all_processes
\* (main.py:573-576, 159-182) ends every process, clears the list and calls
\* start_bot_processes
RestartAllProcesses ==
    /\ supervisor.pc = "fresh"
    /\ supervisor.alive > 0
    /\ \E k \in 0..NumChannels :
          processes' = start_bot_processes(k, supervisor.cycles)
    /\ supervisor' = [supervisor EXCEPT !.pc = "sleep"]
    /\ UNCHANGED <<request_urls, request_keys, clearing>>
    /\ UNCHANGED <<rlVars, pollVars, peerVars>>

\* main.py before start_bot_processes: `processes = []` (53)
InitSupervisor ==
    /\ LimiterAtRest /\ CallersAtRest /\ watch = "none" /\ IdlePoll
    /\ KeysAtRest /\ ClearAtRest
    /\ processes = <<>>
    /\ supervisor = [pc |-> "boot", dead |-> <<>>, found |-> {}, alive |-> 0,
                     cycles |-> 0]

NextSupervisor ==
    \/ StartBotProcesses
    \/ \E i \in 1..NumChannels : ProcessDies(i)
    \/ CheckHealth
    \/ RestartDead
    \/ RestartRaises
    \/ LogFresh
    \/ RestartAllProcesses

SpecSupervisor == InitSupervisor /\ [][NextSupervisor]_vars

-----------------------------------------------------------------------------
(* Part II.  Properties of the polling loop.  obs is what the last pass of *)
(* the for loop did: the record obs.n, last_processed_number and           *)
(* grouped_media_ranges as it found them, and the Sink calls it made.      *)

\* the Sink calls of the last pass that are units of its own record
OwnUnits == SelectSeq(obs.calls, LAMBDA u : u.kind # "placeholder")

\* C6: a record N observed with last_processed_number = L > 0 and N > L + 1
\* gets one placeholder for each number of (L, N) outside
\* grouped_media_ranges, in ascending order, before any unit of N, and then
\* the units of N are sent.
C6_GapPlaceholdersThenRecord ==
    (/\ obs.n > 0 /\ obs.last0 > 0 /\ obs.n > obs.last0 + 1
     /\ obs.n \notin obs.grouped0)
    => LET missing == filtered_missing(obs.last0 + 1, obs.n - 1, obs.grouped0)
           k == Len(missing)
       IN  /\ Len(obs.calls) > k
           /\ \A i \in 1..k : /\ obs.calls[i].kind = "placeholder"
                              /\ obs.calls[i].n = missing[i]
           /\ obs.calls[k + 1].kind = "main"
           /\ \A i \in (k + 1)..Len(obs.calls) :
                  /\ obs.calls[i].kind # "placeholder"
                  /\ obs.calls[i].n = obs.n

\* C7: every observed record N with m = images + videos > 1 adds exactly
\* N+1 .. N+m-1 to grouped_media_ranges, also when the record is already in
\* the ledger or was seen in the previous poll.  (Stated for the records that
\* are not themselves registered as components.)
C7_AlbumRegistersComponents ==
    (/\ obs.n > 0 /\ obs.n \notin obs.grouped0
     /\ total_media(channel[obs.n]) > 1)
    => grouped_media_ranges
           = obs.grouped0
             \cup grouped_components(obs.n, total_media(channel[obs.n]))

\* C8: an observed record whose number is in grouped_media_ranges causes no
\* Sink call, neither a unit nor a placeholder for a gap before it, writes no
\* ledger line, and leaves last_processed_number at its number.
C8_GroupedComponentSkipped ==
    (obs.n > 0 /\ obs.n \in obs.grouped0)
    => /\ obs.calls = <<>>
       /\ obs.lines = 0
       /\ last_processed_number = obs.n

\* a registered component was observed and skipped while numbers outside
\* grouped_media_ranges lay between last_processed_number and it
C8_Witness ==
    /\ obs.n > 0 /\ obs.n \in obs.grouped0
    /\ obs.step = "grouped"
    /\ obs.last0 > 0
    /\ filtered_missing(obs.last0 + 1, obs.n - 1, obs.grouped0) # <<>>
    /\ last_processed_number = obs.n

\* C9: a poll that returns the records the previous poll returned, the
\* previous poll having run to its end, makes no Sink call and writes no
\* permalink line to Disgram.log.
C9_SamePollIdempotent ==
    (/\ pollNo >= 2 /\ prevComplete
     /\ message_boxes # <<>> /\ message_boxes = prev_boxes)
    => (pollCalls = 0 /\ pollWrites = 0)

\* C10: a record whose units were all sent has exactly one permalink line in
\* Disgram.log, and a record none of whose units was sent has none.
C10_OneLedgerLinePerSentRecord ==
    obs.step = "new"
    => /\ (\A i \in 1..Len(OwnUnits) : OwnUnits[i].ok) => ledger[obs.n] = 1
       /\ (\A i \in 1..Len(OwnUnits) : ~OwnUnits[i].ok) => ledger[obs.n] = 0

\* C11: last_processed_number never decreases, over any sequence of polls.
C11_LastProcessedNeverDecreases ==
    [][last_processed_number' >= last_processed_number]_vars


\* C12: no sequence number is both in grouped_media_ranges and one for which
\* a standalone placeholder has been sent, whichever of the registration and
\* the gap detection came first.
C12_ComponentsGetNoPlaceholder ==
    grouped_media_ranges \cap placeholder_sent = {}

\* a placeholder went out for a gap in which a registered component lay
C12_Witness ==
    /\ obs.step \in {"new", "seen", "logged"}
    /\ \E m \in obs.grouped0 : obs.last0 < m /\ m < obs.n
    /\ \E i \in 1..Len(obs.calls) : obs.calls[i].kind = "placeholder"
    /\ placeholder_sent # {}


\* C13: for every bucket, after any sequence of _update_bucket_from_headers,
\* _check_bucket_rate_limit and _decrement_bucket_remaining, including
\* responses that carry only some of the rate-limit headers, remaining never
\* exceeds limit.
C13_RemainingWithinLimit ==
    \A k \in Keys : buckets[k].present => buckets[k].remaining <= buckets[k].limit


\* C14: when the first (main) unit of a record fails, no further unit of that
\* record is sent: no video-link fallback in the single-media path, no other
\* image or video unit in the grouped-media path.
C14_NothingAfterFailedMain ==
    (obs.step = "new" /\ ~OwnUnits[1].ok) => Len(OwnUnits) = 1

\* the main message of an album with a video failed
C14_Witness ==
    /\ obs.step = "new"
    /\ channel[obs.n].images > 1 /\ channel[obs.n].videos >= 1
    /\ OwnUnits = <<Call("main", obs.n, 1, FALSE)>>


\* C15: a record whose first unit failed is not marked delivered in
\* Disgram.log: is_message_logged stays false for it (no later record having
\* been delivered), so that a later poll attempts it again.
C15_FailedRecordNotLogged ==
    (obs.step = "new" /\ ~OwnUnits[1].ok)
    => ~is_message_logged(ledger, obs.n)


C17_WaitEventuallyAdmits ==
    \A c \in Callers : (th[c].pc = "wait") ~> (th[c].pc = "admitted")

\* wait_for_rate_limit has returned for a retry that found the bucket
\* exhausted, after the clock has passed MaxTime
C17_Witness ==
    /\ th["t1"].pc = "admitted"
    /\ th["t1"].attempt > 0
    /\ th["t1"].blockedUntil > 0
    /\ now = MaxTime /\ global_window_start < now


\* C18: the polling loop heals itself: an exception raised while a poll
\* fetches or processes a record is caught, the loop is then in its sleep or
\* back at the fetch, never stopped, and after the sleep another fetch is
\* performed.
C18_LoopSelfHealing ==
    /\ [](obs.step = "exception" => pc \in {"sleep", "fetch"})
    /\ \A p \in 0..(MaxPolls - 1) :
           (obs.step = "exception" /\ pollNo = p) ~> (pollNo > p)

\* an exception ended the processing of a poll after a record of it had been
\* delivered, and the loop sleeps
C18_Witness ==
    /\ obs.step = "exception"
    /\ obs.n > 0 /\ idx > 1 /\ idx <= Len(message_boxes)
    /\ pc = "sleep"
    /\ pollNo < MaxPolls


\* C19: when the supervisor shuts the process down while a record is being
\* delivered, the remaining units of the record are sent before the loop
\* exits: no record is left split.
C19_ShutdownLeavesNoSplitRecord ==
    (pc = "stopped" /\ obs.step = "terminated") => obs.unsent = 0


\* C20: within one source, delivery is sequential and in feed order: a pass
\* of the loop is for the next record of the page, a higher number than the
\* pass before it in the poll; every Sink call of the pass belongs to that
\* record, its gap placeholders first, then its units; and no other Sink call
\* is made in between.
C20_SequentialInFeedOrder ==
    [][(obs' # obs /\ obs'.step \in {"new", "seen", "logged", "grouped"})
       => /\ obs'.n = message_boxes[idx] /\ idx' = idx + 1
          /\ obs.n > 0 => obs'.n > obs.n
          /\ \A i \in 1..Len(obs'.calls) :
                IF obs'.calls[i].kind = "placeholder"
                THEN /\ obs'.calls[i].n < obs'.n
                     /\ \A j \in 1..(i - 1) : obs'.calls[j].kind = "placeholder"
                ELSE obs'.calls[i].n = obs'.n
          /\ pollCalls' = pollCalls + Len(obs'.calls)]_vars

\* the second record of a poll has been delivered with a placeholder and two
\* units, after the first record of the poll had its calls
C20_Witness ==
    /\ obs.step = "new"
    /\ idx = 3
    /\ Len(OwnUnits) >= 2
    /\ Len(obs.calls) > Len(OwnUnits)
    /\ pollCalls > Len(obs.calls)


\* C21: a permalink line written to Disgram.log is never removed or
\* rewritten by a later operation, the /logs/clear endpoint included: the
\* lines of a number never get fewer.
C21_LedgerLinesPermanent ==
    [][\A n \in 1..MaxSeq : ledger'[n] >= ledger[n]]_vars


\* C22: the loops that post to the same webhook share one limiter state: a
\* request sent by the loop of another channel is counted in the global
\* window that gates the requests of this loop.
C22_PeerRequestsCounted ==
    [][peer_sent' = peer_sent + 1
       => global_requests_made' = global_requests_made + 1]_vars


\* the units of a grouped-media record with I images and V videos when every
\* download and every send succeeds: the main unit, the images 2..I, the
\* videos 1..V
whole_album_units(n, I, V) ==
    [k \in 1..(Max(I, 1) + V) |->
        IF k = 1 THEN Call("main", n, 1, TRUE)
        ELSE IF k <= I THEN Call("image", n, k, TRUE)
        ELSE Call("video", n, k - Max(I, 1), TRUE)]

\* C23: for a grouped-media record with I images and V videos whose
\* downloads and sends all succeed, the Sink receives the main unit, then one
\* unit for each image 2..I in order ('Image i of I'), then one unit for each
\* video 1..V in order; no video unit comes before the last image unit.
C23_GroupedOrder ==
    (/\ obs.step = "new"
     /\ takes_grouped_path(channel[obs.n])
     /\ obs.downloaded
     /\ \A i \in 1..Len(OwnUnits) : OwnUnits[i].ok)
    => OwnUnits = whole_album_units(obs.n, channel[obs.n].images,
                               channel[obs.n].videos)

\* an album of three images and two videos went out whole
C23_Witness ==
    /\ obs.step = "new"
    /\ channel[obs.n].images = 3 /\ channel[obs.n].videos = 2
    /\ obs.downloaded
    /\ Len(OwnUnits) = 5
    /\ \A i \in 1..Len(OwnUnits) : OwnUnits[i].ok


\* C24: a record N for which is_message_logged is true is not delivered,
\* and last_processed_number is advanced to N all the same.
C24_LoggedRecordSkippedAndCounted ==
    obs.step = "logged"
    => /\ OwnUnits = <<>>
       /\ obs.lines = 0
       /\ last_processed_number = obs.n


\* C25: a caller that wakes from the wait for the global window checks the
\* window again before it goes on: it leaves the wait only when the window
\* in force has room, global_requests_made < global_limit, also when other
\* callers sent requests during its wait.
C25_RecheckAfterGlobalWait ==
    [][\A c \in Callers :
          (th[c].pc = "gsleep" /\ th'[c].pc = "bcheck")
          => ~(/\ global_requests_made' >= global_limit
               /\ now' - global_window_start' < global_window_size)]_vars


\* C26: for a 5xx response on attempt a (counted from 0) the retry delay is
\* min(2^a, 60) seconds: it depends on the attempt number only, not on which
\* 5xx status came back.
C26_ServerErrorBackoffByAttempt ==
    [][\A c \in Callers :
          (/\ th[c].pc = "inflight" /\ th'[c].pc = "backoff"
           /\ th'[c].status >= 500)
          => th'[c].wake
                 = now + Min(Pow2(th[c].attempt), 60) * TicksPerSecond]_vars


C28_BoundedAttempts ==
    /\ [](\A c \in Callers : th[c].attempt <= max_retries)
    /\ [][\A c \in Callers :
             (th[c].pc # "idle" /\ th'[c].pc = "idle")
             => \/ /\ th'[c].result = "ok"
                   /\ th'[c].status \in {0, 200, 204}
                \/ /\ th'[c].result = "fail"
                   /\ th'[c].status \in ErrStatuses \ {429, 500, 501}
                \/ /\ th'[c].result = "fail"
                   /\ th'[c].status = 0
                   /\ th[c].attempt = max_retries]_vars

\* the budget of a unit is spent: its last attempt failed in a way that is
\* retried, and the unit is reported as failed
C28_Witness ==
    /\ th["t1"].pc = "idle"
    /\ th["t1"].result = "fail"
    /\ th["t1"].status = 0
    /\ th["t1"].attempt = max_retries
    /\ max_retries > 0


\* the step is the handling of a response with status s to the request of
\* thread c
HandlesStatus(c, s) ==
    /\ th[c].pc = "inflight"
    /\ \E h \in {NoHeaders, Exhausted}, b \in BodiesOf(s, LocalBodies) :
          \/ WebhookHTTPError(c, s, HeadersAt(h, now), b)
          \/ ThreadResponse(c, s, HeadersAt(h, now), b)

\* C29: every 401, 403 and 429 response adds exactly one to
\* invalid_requests_count, after the count was set to zero when the window of
\* 600 seconds has elapsed; no other step changes it; and no value of it,
\* above max_invalid_requests either, keeps a caller from being admitted:
\* each step of wait_for_rate_limit and the send can be taken.
C29_InvalidRequestsCounted ==
    /\ [][\A c \in Callers, s \in Statuses :
             HandlesStatus(c, s)
             => invalid_requests_count'
                    = IF s \in {401, 403, 429}
                      THEN (IF now - invalid_requests_window_start
                                   >= invalid_requests_window
                            THEN 0 ELSE invalid_requests_count) + 1
                      ELSE invalid_requests_count]_vars
    /\ [][invalid_requests_count' # invalid_requests_count
          => \E c \in Callers, s \in {401, 403, 429} : HandlesStatus(c, s)]_vars
    /\ [](\A c \in {"t1"} :
             /\ th[c].pc = "wait" => ENABLED CheckGlobal(c)
             /\ th[c].pc = "bcheck" => ENABLED CheckBucket(c)
             /\ th[c].pc = "admitted" => ENABLED Send(c))

\* a request is admitted with invalid_requests_count above
\* max_invalid_requests, after a 401, 403 or 429 was counted
C29_Witness ==
    /\ invalid_requests_count > max_invalid_requests
    /\ th["t1"].pc = "admitted"


C31_SleepBetweenFetches ==
    [][pollNo' = pollNo + 1 => pc' # "fetch"]_vars


\* C32: a unit of a record that fails, at whatever position of the record's
\* units, is the last unit sent for that record: after a failed send of an
\* additional image or of a video in the grouped-media path, no later unit
\* of the same record goes out.
C32_FailedUnitEndsRecord ==
    obs.step = "new"
    => \A i \in 1..Len(OwnUnits) :
          ~OwnUnits[i].ok => i = Len(OwnUnits)


\* C33: over a run of the loop, whatever the number of polls, each missing
\* sequence number gets at most one placeholder: a pass of the loop sends no
\* placeholder for a number for which an earlier pass has sent one.
C33_OnePlaceholderPerGap ==
    [][idx' = idx + 1
       => \A i \in 1..Len(obs'.calls) :
             obs'.calls[i].kind = "placeholder"
             => obs'.calls[i].n \notin placeholder_sent]_vars


\* C38: no placeholder goes out for a sequence number of which Disgram.log
\* already holds a permalink line as a delivered record - written by this
\* loop when it delivered the record, or found there from an earlier run -
\* over any sequence of polls.  (A number whose lines come from an earlier
\* placeholder is left aside here: that repetition is C33.)
C38_NoPlaceholderForDelivered ==
    [][idx' = idx + 1
       => \A i \in 1..Len(obs'.calls) :
             obs'.calls[i].kind = "placeholder"
             => \/ ledger[obs'.calls[i].n] = 0
                \/ obs'.calls[i].n \in placeholder_sent]_vars


\* the video-link units among the units of the record of the last pass
VideoLinks == SelectSeq(OwnUnits, LAMBDA u : u.kind = "videolink")

\* C35: in the single-media path a unit holding the video link and the
\* permalink is sent exactly when the record has a video, the video was not
\* downloaded for attachment and the main unit was sent successfully; it is
\* the unit right after the main unit.  When the video was downloaded it is a
\* file of the main unit and no link unit is sent.
C35_VideoLinkFallback ==
    (obs.step = "new" /\ ~takes_grouped_path(channel[obs.n]))
    => LET rec == channel[obs.n]
       IN  /\ Len(VideoLinks) <= 1
           /\ Len(VideoLinks) = 1
              <=> (rec.videos >= 1 /\ ~obs.downloaded /\ OwnUnits[1].ok)
           /\ Len(VideoLinks) = 1
              => /\ Len(OwnUnits) = 2
                 /\ OwnUnits[1].kind = "main"
                 /\ OwnUnits[2] = VideoLinks[1]
           /\ (rec.videos >= 1 /\ obs.downloaded)
              => obs.attached /\ VideoLinks = <<>>
           /\ obs.attached => rec.videos >= 1 /\ obs.downloaded

\* a record with one image and a video that could not be downloaded: the
\* main unit went out and the link unit followed it
C35_Witness ==
    /\ obs.step = "new"
    /\ channel[obs.n].images = 1 /\ channel[obs.n].videos = 1
    /\ ~obs.downloaded /\ ~obs.attached
    /\ Len(OwnUnits) = 2
    /\ OwnUnits[1].kind = "main" /\ OwnUnits[1].ok
    /\ OwnUnits[2].kind = "videolink"


\* C34: a record goes through the grouped-media path - sendMessage hands it
\* to sendGroupedMediaMessage, which shows in the two permalink lines written
\* after "New message found" - exactly when its images and videos together
\* are more than one, the condition under which its following sequence
\* numbers are registered in grouped_media_ranges; so does a record with one
\* image and one video.
C34_GroupedPathIffRegistered ==
    obs.step = "new"
    => LET rec == channel[obs.n]
       IN  /\ obs.lines = 3 <=> total_media(rec) > 1
           /\ obs.lines = 3
              <=> grouped_components(obs.n, total_media(rec)) # {}

\* C36: two requests with the same webhook id and the same token get one
\* bucket key, whatever their query strings; two requests that differ in the
\* webhook id or in the token get different bucket keys.
C36_KeyIdentifiesWebhook ==
    (request_keys # <<>> /\ request_keys[1] # <<>> /\ request_keys[2] # <<>>)
    => ((/\ request_urls[1].id = request_urls[2].id
         /\ request_urls[1].token = request_urls[2].token)
        <=> request_keys[1] = request_keys[2])


\* what a successful send of caller c leaves behind, bs being the buckets
\* when _decrement_bucket_remaining is called
SuccessCounted(c, bs) ==
    LET key == th[c].key
        b   == bs[key]
    IN  /\ th'[c].pc = "idle" /\ th'[c].result = "ok"
        /\ global_requests_made' = global_requests_made + 1
        /\ buckets'[key] = IF b.present /\ b.remaining > 0
                           THEN [b EXCEPT !.remaining = @ - 1]
                           ELSE b
        /\ buckets'[key].remaining >= 0
        /\ \A k \in Keys \ {key} : buckets'[k] = buckets[k]

\* C37: a successful send - SyncWebhook.send returning, or a response with a
\* status below 400 - ends the unit with success and without a retry, adds
\* one to global_requests_made, and takes one from the remaining of the
\* bucket of the key when the bucket exists and its remaining (for a
\* response: as the headers of the response left it) is above 0; a
\* decrement never takes remaining below 0.
C37_SuccessDecrementsBucket ==
    [][\A c \in Callers :
          /\ WebhookSuccess(c) => SuccessCounted(c, buckets)
          /\ \A s \in {st \in Statuses : st < 400}, h \in Headers :
                ThreadResponse(c, s, HeadersAt(h, now), NoBody)
                => SuccessCounted(c,
                       update_bucket_from_headers(buckets, th[c].key,
                                                  HeadersAt(h, now)))]_vars

\* a unit sent through SyncWebhook ended with success, and the bucket of its
\* key, known from an earlier response, has been counted down to 0
C37_Witness ==
    /\ path = "webhook"
    /\ th["t1"].pc = "idle" /\ th["t1"].result = "ok"
    /\ buckets["k1"].present
    /\ buckets["k1"].limit = MaxLimit /\ buckets["k1"].remaining = MaxLimit - 1
    /\ global_requests_made >= 1


\* C39: the highest sequence number of the channel recorded in Disgram.log,
\* which decides is_message_logged, never decreases, however the appends of
\* the bot process fall between the read and the rewrite of
\* clear_disgram_log.
C39_LatestLoggedNeverDecreases ==
    [][latest_message(ledger') >= latest_message(ledger)]_vars


\* C40: after start_bot_processes and through every supervision cycle,
\* processes[i] is a bot process for Channels[i] for every index i of
\* processes; and when the loop over the dead processes of a cycle is left,
\* every process check_process_health found dead in that cycle has been
\* replaced, at its index, by a process started in that cycle for the same
\* channel.
C40_ProcessesMatchChannels ==
    /\ \A i \in DOMAIN processes : processes[i].channel = i
    /\ supervisor.pc \in {"fresh", "crashed"}
       => \A i \in supervisor.found :
             /\ i \in DOMAIN processes
             /\ processes[i].channel = i
             /\ processes[i].born = supervisor.cycles

=============================================================================
